---- MODULE Spec2Model ----
(***************************************************************************)
(* Session state (AuthProvider), route guard (ProtectedRoute), route table *)
(* (App) and the login form (LoginPage) of the spacevibe frontend.         *)
(*                                                                         *)
(* localStorage is a total, synchronous key-value store of strings.  A     *)
(* React state setter called in a handler takes effect in the render that  *)
(* follows the handler, before any component reads the context again, so   *)
(* an action is one handler together with the render it causes.  Effects   *)
(* (the provider's mount effect, the effect of <Navigate>) run after that  *)
(* render and before any later event is handled.                           *)
(***************************************************************************)
EXTENDS Naturals, Sequences, FiniteSets, TLC

VARIABLES
    storage,          \* localStorage: partial function key -> string
    isAuthenticated,  \* AuthProvider state
    loading,          \* AuthProvider state
    effectPending,    \* AuthProvider is mounted and its mount effect has not run
    history,          \* browser session history: sequence of paths
    hidx,             \* position of the current entry in history
    rendered,         \* element the route table rendered last
    loginPage,        \* LoginPage state: isSubmitting, submitError, submitSuccess
    liveReq,          \* a login request of the mounted LoginPage is in flight
    staleReqs,        \* login requests in flight whose LoginPage has unmounted
    callLog,          \* the last login/logout calls since the provider mounted
    lastTokens,       \* argument of the last login call
    lastEvent,        \* name of the handler or effect that ran last
    register,         \* Register state, its requests in flight and its timers
    authHook,         \* the last useAuth call: where it was made, its outcome
    details,          \* HouseDetailsPage state and its requests in flight
    server,           \* the houses the backend holds, in id order
    dash,             \* DashboardPage state and its pending timers
    requests          \* house requests in flight, each with what its handler
                      \* captured when it was sent

vars == <<storage, isAuthenticated, loading, effectPending, history, hidx,
          rendered, loginPage, liveReq, staleReqs, callLog, lastTokens, lastEvent,
          register, authHook, details, server, dash, requests>>

---------------------------------------------------------------------------
\* Bounds

NumTokens == 3
MaxHistory == 2
MaxInFlight == 1
MaxCallLog == 2
MaxFetches == 2
MaxHouses == 2
MaxRequests == 2
MaxTimers == 2

---------------------------------------------------------------------------
\* Values

TokenPool == <<"", "a1", "r1", "abc", "xyz">>
Tokens == {TokenPool[i] : i \in 1..NumTokens}
TokenPairs == [access : Tokens, refresh : Tokens]

\* string | null
Null == <<>>
Some(s) == <<s>>

\* JavaScript truthiness of a string | null value
Truthy(v) == v # Null /\ v[1] # ""

Keys == {"accessToken", "refreshToken"}

getItem(s, k) == IF k \in DOMAIN s THEN Some(s[k]) ELSE Null
setItem(s, k, v) == [x \in (DOMAIN s) \cup {k} |-> IF x = k THEN v ELSE s[x]]
removeItem(s, k) == [x \in (DOMAIN s) \ {k} |-> s[x]]

Storages == UNION {[D -> Tokens] : D \in SUBSET Keys}

HouseDetailsPath == "/house-details/1"
OtherHouseDetailsPath == "/house-details/2"
HouseDetailsPaths == {HouseDetailsPath, OtherHouseDetailsPath}
\* the paths entered in the address bar; the second house details path is
\* entered only where the house details page itself is examined
Paths == {"/", "/login", "/register", "/dashboard", HouseDetailsPath, "/profile"}
ProtectedPaths == {"/dashboard"} \cup HouseDetailsPaths

\* useParams().id of a /house-details/:id path
RouteId(path) == IF path = HouseDetailsPath THEN 1 ELSE 2

---------------------------------------------------------------------------
\* AuthProvider

Session(s, a, l) == [storage |-> s, isAuthenticated |-> a, loading |-> l]

\* mount effect that clears loading only when it finds a token
initialize_LoadingOnlyIfToken(st) ==
    LET token == getItem(st.storage, "accessToken")
    IN  Session(st.storage,
                IF Truthy(token) THEN TRUE ELSE st.isAuthenticated,
                IF Truthy(token) THEN FALSE ELSE st.loading)

\* mount effect that flips loading instead of clearing it
initialize_TogglesLoading(st) ==
    LET token == getItem(st.storage, "accessToken")
    IN  Session(st.storage,
                IF Truthy(token) THEN TRUE ELSE st.isAuthenticated,
                ~st.loading)

\* useEffect(() => {...}, [])
initialize(st) ==
    LET token == getItem(st.storage, "accessToken")
    IN  Session(st.storage,
                IF Truthy(token) THEN TRUE ELSE st.isAuthenticated,
                FALSE)

\* login that writes only the access token
login_AccessOnly(st, tokens) ==
    Session(setItem(st.storage, "accessToken", tokens.access), TRUE, st.loading)

\* login that writes both tokens and leaves the flag as it was
login_NoFlag(st, tokens) ==
    Session(setItem(setItem(st.storage, "accessToken", tokens.access),
                    "refreshToken", tokens.refresh),
            st.isAuthenticated, st.loading)

\* login that shows the loading placeholder again
login_ShowsLoading(st, tokens) ==
    Session(setItem(setItem(st.storage, "accessToken", tokens.access),
                    "refreshToken", tokens.refresh),
            TRUE, TRUE)

login(st, tokens) ==
    Session(setItem(setItem(st.storage, "accessToken", tokens.access),
                    "refreshToken", tokens.refresh),
            TRUE, st.loading)

\* logout that leaves the refresh token behind
logout_KeepsRefresh(st) ==
    Session(removeItem(st.storage, "accessToken"), FALSE, st.loading)

\* logout that flips the flag instead of clearing it
logout_Toggle(st) ==
    Session(removeItem(removeItem(st.storage, "accessToken"), "refreshToken"),
            ~st.isAuthenticated, st.loading)

logout(st) ==
    Session(removeItem(removeItem(st.storage, "accessToken"), "refreshToken"),
            FALSE, st.loading)

\* getAccessToken that reads the other key
getAccessToken_ReadsRefresh(st) == getItem(st.storage, "refreshToken")

getAccessToken(st) == getItem(st.storage, "accessToken")

\* value={{ isAuthenticated, login, logout, getAccessToken, loading }}: the
\* functions are the provider's own, the value is told by the state it carries
ProviderValue(st) ==
    [isAuthenticated |-> st.isAuthenticated, loading |-> st.loading,
     accessToken |-> getAccessToken(st)]

\* useContext(AuthContext): the value of the enclosing provider, or the
\* default of createContext(null)
useContext(inProvider, st) ==
    IF inProvider THEN Some(ProviderValue(st)) ELSE Null

Returned(v) == [threw |-> FALSE, error |-> "", value |-> v]
Thrown(msg) == [threw |-> TRUE, error |-> msg, value |-> Null]

\* useAuth that hands out the missing context instead of throwing
useAuth_ReturnsContext(context) == Returned(context)

useAuth(context) ==
    IF context = Null
    THEN Thrown("useAuth must be used within an AuthProvider")
    ELSE Returned(context)

NoHookCall == [inProvider |-> TRUE, result |-> Returned(Null)]

---------------------------------------------------------------------------
\* ProtectedRoute and the route table

Page(v) == [view |-> v, to |-> "", replace |-> FALSE]
Placeholder == Page("Loading...")
Navigate(to, replace) == [view |-> "Navigate", to |-> to, replace |-> replace]
Unrendered == Page("")

\* guard that forgets the authentication test
ProtectedRoute_NoAuthTest(l, a, children) ==
    IF l THEN Placeholder ELSE children

\* guard that tests authentication before loading
ProtectedRoute_AuthFirst(l, a, children) ==
    IF ~a THEN Navigate("/login", TRUE)
    ELSE IF l THEN Placeholder
    ELSE children

\* guard whose authentication test is inverted
ProtectedRoute_Inverted(l, a, children) ==
    IF l THEN Placeholder
    ELSE IF a THEN Navigate("/login", TRUE)
    ELSE children

ProtectedRoute(l, a, children) ==
    IF l THEN Placeholder
    ELSE IF ~a THEN Navigate("/login", TRUE)
    ELSE children

\* the element each protected route hands to ProtectedRoute
RouteChildren(path) ==
    IF path = "/dashboard" THEN Page("DashboardPage") ELSE Page("HouseDetailsPage")

App(path, l, a) ==
    CASE path \in {"/", "/login"} -> Page("Login")
      [] path = "/register" -> Page("Register")
      [] path \in ProtectedPaths -> ProtectedRoute(l, a, RouteChildren(path))
      [] OTHER -> Page("NoMatch")

---------------------------------------------------------------------------
\* Navigation

location == history[hidx]

\* history.pushState: entries after the current one are dropped; the browser
\* keeps at most MaxHistory entries and forgets the oldest.
push(h, i, p) ==
    LET t == Append(SubSeq(h, 1, i), p)
    IN  IF Len(t) > MaxHistory
        THEN [history |-> Tail(t), hidx |-> MaxHistory]
        ELSE [history |-> t, hidx |-> i + 1]

\* navigate that ignores the replace option
navigate_AlwaysPush(h, i, to, replace) == push(h, i, to)

\* navigate(to, { replace })
navigate(h, i, to, replace) ==
    IF replace THEN [history |-> [h EXCEPT ![i] = to], hidx |-> i]
    ELSE push(h, i, to)

\* <Link to=...> and navigate(...) buttons of each page; "/profile" stands for
\* the two links of the user menu that match no route.
Links ==
    { <<"Login", "/register">>,
      <<"Register", "/login">>,
      <<"DashboardPage", HouseDetailsPath>>,
      <<"DashboardPage", "/profile">>,
      <<"HouseDetailsPage", "/dashboard">>,
      <<"HouseDetailsPage", "/profile">> }

---------------------------------------------------------------------------
\* LoginPage

InitialLoginPage ==
    [isSubmitting |-> FALSE, submitError |-> Null, submitSuccess |-> FALSE]

\* error.response?.data?.detail
Details == {Null, Some(""), Some("No active account found")}

\* error.response?.data?.detail || 'An error occurred'
ErrorText(detail) == IF Truthy(detail) THEN detail ELSE Some("An error occurred")

\* statuses axios resolves with; every other status rejects
ResolvedStatuses == {200, 201}

InFlight == (IF liveReq THEN 1 ELSE 0) + staleReqs

---------------------------------------------------------------------------
\* Register

\* staleReqs: requests in flight whose Register has unmounted; navTimers:
\* pending setTimeout(() => navigate('/login')); clearTimers: pending
\* setTimeout(() => setSubmitError(null)) of the mounted Register
InitialRegister ==
    [isSubmitting |-> FALSE, submitError |-> Null, submitSuccess |-> Null,
     staleReqs |-> 0, navTimers |-> 0, clearTimers |-> 0]

\* error.response?.data?.detail || 'Registration failed'
RegisterErrorText(detail) ==
    IF Truthy(detail) THEN detail ELSE Some("Registration failed")

RegisterSuccessText ==
    Some("Account created successfully. Please log in to continue.")

RegisterInFlight ==
    (IF register.isSubmitting THEN 1 ELSE 0) + register.staleReqs
        + register.navTimers + register.clearTimers

\* requests the dashboard and the house details page send; their house list
\* and messages are local to the page
PageOperations ==
    { <<"DashboardPage", "fetchHouses">>,
      <<"DashboardPage", "handleCreateHouse">>,
      <<"DashboardPage", "handleDeleteHouse">>,
      <<"DashboardPage", "handleUpdateHouse">>,
      <<"HouseDetailsPage", "fetchHouseDetails">> }

---------------------------------------------------------------------------
\* DashboardPage

HouseIds == 1..MaxHouses

House(id, name, width, length, height, floors) ==
    [id |-> id, name |-> name, width |-> width, length |-> length,
     height |-> height, floors |-> floors]

\* houseSchema without the height rule
houseSchema_NoHeight(h) ==
    /\ h.name # ""
    /\ h.width >= 1
    /\ h.length >= 1
    /\ h.floors >= 1

\* houseSchema.parse(h) does not throw
houseSchema(h) ==
    /\ h.name # ""
    /\ h.width >= 1
    /\ h.length >= 1
    /\ h.height >= 1
    /\ h.floors >= 1

\* what the user leaves in a form: every field valid, or exactly one invalid
FormValues(id) ==
    {House(id, n, 1, 1, 1, 1) : n \in {"a", "b"}}
        \cup {House(id, "", 1, 1, 1, 1), House(id, "a", 0, 1, 1, 1),
              House(id, "a", 1, 0, 1, 1), House(id, "a", 1, 1, 0, 1),
              House(id, "a", 1, 1, 1, 0)}

ValidValues(id) == {h \in FormValues(id) : houseSchema(h)}

\* useState<HouseForm>({name: '', width: 0, length: 0, height: 0, floors: 1, id: 0})
InitialNewHouse == House(0, "", 0, 0, 0, 1)

Ids(hs) == {hs[i].id : i \in 1..Len(hs)}

\* houses.filter((house) => house.id !== id)
FilterOut(hs, id) == SelectSeq(hs, LAMBDA h : h.id # id)

\* houses.map((house) => (house.id === editing.id ? editing : house))
MapReplace(hs, editing) ==
    [i \in 1..Len(hs) |-> IF hs[i].id = editing.id THEN editing ELSE hs[i]]

\* the backend: POST adds the house under the smallest free id, the list is
\* kept in id order
FreeIds(hs) == HouseIds \ Ids(hs)
NewId(hs) == CHOOSE i \in FreeIds(hs) : \A j \in FreeIds(hs) : i <= j
Insert(hs, h) ==
    SelectSeq(hs, LAMBDA x : x.id < h.id) \o <<h>>
        \o SelectSeq(hs, LAMBDA x : x.id > h.id)

HouseOf(hs, id) == hs[CHOOSE i \in 1..Len(hs) : hs[i].id = id]

\* the lists the backend may hold: valid houses, distinct ids, in id order
SortedIds(S) ==
    CHOOSE s \in [1..Cardinality(S) -> S] :
        \A i, j \in 1..Cardinality(S) : i < j => s[i] < s[j]
ServerLists ==
    {[i \in 1..Cardinality(DOMAIN f) |->
         House(SortedIds(DOMAIN f)[i], f[SortedIds(DOMAIN f)[i]], 1, 1, 1, 1)] :
       f \in UNION {[S -> {"a", "b"}] : S \in SUBSET HouseIds}}

\* the row of house id shows its Design Attachment, Edit and Delete buttons
RowShown(d, id) ==
    /\ d.mounted
    /\ id \in Ids(d.houses)
    /\ IF d.editingHouse = Null THEN TRUE ELSE d.editingHouse[1].id # id

\* the row of the house being edited shows its inputs, Cancel and Save
EditRowShown(d) ==
    /\ d.mounted
    /\ IF d.editingHouse = Null THEN FALSE
       ELSE d.editingHouse[1].id \in Ids(d.houses)

\* setSuccessMessage(msg); setTimeout(() => setSuccessMessage(null), 2000)
ShowSuccess(d, msg) ==
    [d EXCEPT !.successMessage = Some(msg), !.successTimers = @ + 1]

\* setErrorMessage(msg); setTimeout(() => setErrorMessage(null), 2000)
ShowError(d, msg) ==
    [d EXCEPT !.errorMessage = Some(msg), !.errorTimers = @ + 1]

ValidationFailed == "Validation failed: Please check your input fields."

UnmountedDashboard ==
    [mounted |-> FALSE, houses |-> <<>>, isCreating |-> FALSE,
     editingHouse |-> Null, newHouse |-> InitialNewHouse,
     successMessage |-> Null, errorMessage |-> Null, loading |-> FALSE,
     successTimers |-> 0, errorTimers |-> 0]

\* the first render of DashboardPage
MountedDashboard == [UnmountedDashboard EXCEPT !.mounted = TRUE]

\* a request in flight: live tells whether the DashboardPage that sent it is
\* still mounted; house and houses are the editingHouse / newHouse / id and
\* the houses of the render whose handler sent it
Request(kind, house, houses) ==
    [kind |-> kind, live |-> TRUE, house |-> house, houses |-> houses]

\* fetchHouses up to the await
FetchRequest == Request("fetch", InitialNewHouse, <<>>)

\* requests of a DashboardPage that unmounted: the answer to a fetch only sets
\* state of the unmounted page, the others still reach the backend
Stale(rq) ==
    LET kept == SelectSeq(rq, LAMBDA r : r.kind # "fetch")
    IN  [i \in 1..Len(kept) |-> [kept[i] EXCEPT !.live = FALSE]]

---------------------------------------------------------------------------
\* HouseDetailsPage

\* house: the id of the house held in state, or null; fetches: the ids asked
\* for by the requests in flight, in the order they were sent
UnmountedDetails ==
    [mounted |-> FALSE, id |-> 0, house |-> Null, loading |-> TRUE,
     error |-> Null, fetches |-> <<>>]

\* the first render (house null, loading true, error null) and its effect:
\* fetchHouseDetails up to the await
MountedDetails(id) ==
    [mounted |-> TRUE, id |-> id, house |-> Null, loading |-> TRUE,
     error |-> Null, fetches |-> <<id>>]

\* the effect of [id] after the route parameter changed: fetchHouseDetails of
\* the new render up to the await
RefetchDetails(dt, id) ==
    [dt EXCEPT !.id = id, !.loading = TRUE, !.fetches = Append(@, id)]

Without(s, i) == SubSeq(s, 1, i - 1) \o SubSeq(s, i + 1, Len(s))

---------------------------------------------------------------------------
\* Render following a handler: the route table is evaluated on the new state.
\* LoginPage keeps its state (lp, live) only while it stays mounted; a request
\* of an unmounted LoginPage stays in flight.
Rerender(lp, live, stale) ==
    /\ rendered' = App(history'[hidx'], loading', isAuthenticated')
    /\ IF rendered.view = "Login" /\ rendered'.view = "Login"
       THEN /\ loginPage' = lp
            /\ liveReq' = live
            /\ staleReqs' = stale
       ELSE /\ loginPage' = InitialLoginPage
            /\ liveReq' = FALSE
            /\ staleReqs' = stale + (IF live THEN 1 ELSE 0)

\* Register keeps its state r only while it stays mounted; its request stays
\* in flight and its navigation timers stay pending when it unmounts
KeepRegister(r) ==
    register' =
        IF rendered.view = "Register" /\ rendered'.view = "Register"
        THEN r
        ELSE [InitialRegister EXCEPT
                 !.staleReqs = r.staleReqs + (IF r.isSubmitting THEN 1 ELSE 0),
                 !.navTimers = r.navTimers]

\* HouseDetailsPage keeps its state dt while the route table renders it; it
\* mounts afresh when it was not rendered, and fetches again when the route
\* parameter changed under it
KeepDetails(dt) ==
    details' =
        IF rendered'.view # "HouseDetailsPage" THEN UnmountedDetails
        ELSE IF rendered.view # "HouseDetailsPage" \/ ~dt.mounted
             THEN MountedDetails(RouteId(history'[hidx']))
        ELSE IF RouteId(history'[hidx']) # dt.id
             THEN RefetchDetails(dt, RouteId(history'[hidx']))
        ELSE dt

\* DashboardPage keeps its state d and its requests rq while the route table
\* renders it; it mounts afresh, running fetchHouses, when it was not rendered
KeepDashboard(d, rq) ==
    /\ dash' =
          IF rendered'.view # "DashboardPage" THEN UnmountedDashboard
          ELSE IF rendered.view # "DashboardPage" \/ ~d.mounted
               THEN MountedDashboard
          ELSE d
    /\ requests' =
          IF rendered'.view # "DashboardPage" THEN Stale(rq)
          ELSE IF rendered.view # "DashboardPage" \/ ~d.mounted
               THEN Append(Stale(rq), FetchRequest)
          ELSE rq

SetSession(s) ==
    /\ storage' = s.storage
    /\ isAuthenticated' = s.isAuthenticated
    /\ loading' = s.loading

SetHistory(n) ==
    /\ history' = n.history
    /\ hidx' = n.hidx

current == Session(storage, isAuthenticated, loading)

\* the request layer (../Api): sending a request leaves the session as it is
api(st) == st

Logged(op) ==
    LET t == Append(callLog, op)
    IN  IF Len(t) > MaxCallLog THEN Tail(t) ELSE t

\* no effect is waiting to run: events are handled only then
Idle == ~effectPending /\ rendered.view # "Navigate"

---------------------------------------------------------------------------
\* Actions

\* AuthProvider: the mount effect
Initialize ==
    /\ effectPending
    /\ SetSession(initialize(current))
    /\ effectPending' = FALSE
    /\ lastEvent' = "initialize"
    /\ UNCHANGED <<history, hidx, callLog, lastTokens>>
    /\ Rerender(loginPage, liveReq, staleReqs)
    /\ KeepRegister(register)
    /\ UNCHANGED authHook
    /\ KeepDetails(details)
    /\ UNCHANGED server
    /\ KeepDashboard(dash, requests)

\* AuthProvider: the mount effect invoked again on the mounted provider
RerunEffect ==
    /\ ~effectPending
    /\ SetSession(initialize(current))
    /\ lastEvent' = "reinitialize"
    /\ UNCHANGED <<effectPending, history, hidx, callLog, lastTokens>>
    /\ Rerender(loginPage, liveReq, staleReqs)
    /\ KeepRegister(register)
    /\ UNCHANGED authHook
    /\ KeepDetails(details)
    /\ UNCHANGED server
    /\ KeepDashboard(dash, requests)

\* a guard that logs the user out while it renders
Render_LogsOut ==
    /\ lastEvent' = "render"
    /\ storage' = logout(current).storage
    /\ isAuthenticated' = logout(current).isAuthenticated
    /\ UNCHANGED <<loading, effectPending, history, hidx, callLog, lastTokens>>
    /\ Rerender(loginPage, liveReq, staleReqs)
    /\ KeepRegister(register)
    /\ UNCHANGED authHook
    /\ KeepDetails(details)
    /\ UNCHANGED server
    /\ KeepDashboard(dash, requests)

\* ProtectedRoute / route table evaluated again with nothing changed
Render ==
    /\ lastEvent' = "render"
    /\ UNCHANGED <<storage, isAuthenticated, loading, effectPending,
                   history, hidx, callLog, lastTokens>>
    /\ Rerender(loginPage, liveReq, staleReqs)
    /\ KeepRegister(register)
    /\ UNCHANGED authHook
    /\ KeepDetails(details)
    /\ UNCHANGED server
    /\ KeepDashboard(dash, requests)

\* the effect of the <Navigate> element ProtectedRoute returned
Redirect ==
    /\ rendered.view = "Navigate"
    /\ SetHistory(navigate(history, hidx, rendered.to, rendered.replace))
    /\ lastEvent' = "redirect"
    /\ UNCHANGED <<storage, isAuthenticated, loading, effectPending,
                   callLog, lastTokens>>
    /\ Rerender(loginPage, liveReq, staleReqs)
    /\ KeepRegister(register)
    /\ UNCHANGED authHook
    /\ KeepDetails(details)
    /\ UNCHANGED server
    /\ KeepDashboard(dash, requests)

\* LoginPage.onSubmit up to the await
SubmitLogin ==
    /\ Idle
    /\ rendered.view = "Login"
    /\ ~loginPage.isSubmitting
    /\ InFlight + RegisterInFlight < MaxInFlight
    /\ lastEvent' = "submit"
    /\ SetSession(api(current))
    /\ UNCHANGED <<effectPending, history, hidx, callLog, lastTokens>>
    /\ Rerender([isSubmitting |-> TRUE, submitError |-> Null,
                 submitSuccess |-> FALSE], TRUE, staleReqs)
    /\ KeepRegister(register)
    /\ UNCHANGED authHook
    /\ KeepDetails(details)
    /\ UNCHANGED server
    /\ KeepDashboard(dash, requests)

\* onSubmit that navigates to the dashboard without calling login
LoginResolved_NoLogin(live, status, tokens) ==
    /\ Idle
    /\ IF live THEN liveReq ELSE staleReqs > 0
    /\ IF status = 200
       THEN SetHistory(navigate(history, hidx, "/dashboard", FALSE))
       ELSE UNCHANGED <<history, hidx>>
    /\ UNCHANGED <<storage, isAuthenticated, loading, callLog, lastTokens>>
    /\ lastEvent' = "resolved"
    /\ UNCHANGED effectPending
    /\ IF live
       THEN Rerender([loginPage EXCEPT !.isSubmitting = FALSE,
                                       !.submitSuccess = (status = 200) \/ @],
                     FALSE, staleReqs)
       ELSE Rerender(loginPage, liveReq, staleReqs - 1)
    /\ KeepRegister(register)
    /\ UNCHANGED authHook
    /\ KeepDetails(details)
    /\ UNCHANGED server
    /\ KeepDashboard(dash, requests)

\* onSubmit that calls login whatever the status of the response
LoginResolved_AnyStatus(live, status, tokens) ==
    /\ Idle
    /\ IF live THEN liveReq ELSE staleReqs > 0
    /\ SetSession(login(current, tokens))
    /\ callLog' = Logged("login")
    /\ lastTokens' = Some(tokens)
    /\ IF status = 200
       THEN SetHistory(navigate(history, hidx, "/dashboard", FALSE))
       ELSE UNCHANGED <<history, hidx>>
    /\ lastEvent' = "resolved"
    /\ UNCHANGED effectPending
    /\ IF live
       THEN Rerender([loginPage EXCEPT !.isSubmitting = FALSE,
                                       !.submitSuccess = (status = 200) \/ @],
                     FALSE, staleReqs)
       ELSE Rerender(loginPage, liveReq, staleReqs - 1)
    /\ KeepRegister(register)
    /\ UNCHANGED authHook
    /\ KeepDetails(details)
    /\ UNCHANGED server
    /\ KeepDashboard(dash, requests)

\* LoginPage.onSubmit after the await, request resolved: live tells whether
\* the request belongs to the mounted LoginPage
LoginResolved(live, status, tokens) ==
    /\ Idle
    /\ IF live THEN liveReq ELSE staleReqs > 0
    /\ IF status = 200
       THEN /\ SetSession(login(current, tokens))
            /\ callLog' = Logged("login")
            /\ lastTokens' = Some(tokens)
            /\ SetHistory(navigate(history, hidx, "/dashboard", FALSE))
       ELSE UNCHANGED <<storage, isAuthenticated, loading, callLog,
                        lastTokens, history, hidx>>
    /\ lastEvent' = "resolved"
    /\ UNCHANGED effectPending
    /\ IF live
       THEN Rerender([loginPage EXCEPT !.isSubmitting = FALSE,
                                       !.submitSuccess = (status = 200) \/ @],
                     FALSE, staleReqs)
       ELSE Rerender(loginPage, liveReq, staleReqs - 1)
    /\ KeepRegister(register)
    /\ UNCHANGED authHook
    /\ KeepDetails(details)
    /\ UNCHANGED server
    /\ KeepDashboard(dash, requests)

\* LoginPage.onSubmit after the await, request rejected
LoginRejected(live, detail) ==
    /\ Idle
    /\ IF live THEN liveReq ELSE staleReqs > 0
    /\ lastEvent' = "rejected"
    /\ UNCHANGED <<storage, isAuthenticated, loading, effectPending,
                   history, hidx, callLog, lastTokens>>
    /\ IF live
       THEN Rerender([loginPage EXCEPT !.isSubmitting = FALSE,
                                       !.submitError = ErrorText(detail)],
                     FALSE, staleReqs)
       ELSE Rerender(loginPage, liveReq, staleReqs - 1)
    /\ KeepRegister(register)
    /\ UNCHANGED authHook
    /\ KeepDetails(details)
    /\ UNCHANGED server
    /\ KeepDashboard(dash, requests)

\* DashboardLayout: onClick={() => logout()}
ClickLogout ==
    /\ Idle
    /\ rendered.view \in {"DashboardPage", "HouseDetailsPage"}
    /\ SetSession(logout(current))
    /\ callLog' = Logged("logout")
    /\ lastEvent' = "logout"
    /\ UNCHANGED <<effectPending, history, hidx, lastTokens>>
    /\ Rerender(loginPage, liveReq, staleReqs)
    /\ KeepRegister(register)
    /\ UNCHANGED authHook
    /\ KeepDetails(details)
    /\ UNCHANGED server
    /\ KeepDashboard(dash, requests)

FollowLink(p) ==
    /\ Idle
    /\ <<rendered.view, p>> \in Links
    /\ SetHistory(navigate(history, hidx, p, FALSE))
    /\ lastEvent' = "link"
    /\ UNCHANGED <<storage, isAuthenticated, loading, effectPending,
                   callLog, lastTokens>>
    /\ Rerender(loginPage, liveReq, staleReqs)
    /\ KeepRegister(register)
    /\ UNCHANGED authHook
    /\ KeepDetails(details)
    /\ UNCHANGED server
    /\ KeepDashboard(dash, requests)

\* browser back / forward
Traverse(d) ==
    /\ Idle
    /\ hidx + d \in 2..(Len(history) + 1)
    /\ hidx' = hidx + d - 1
    /\ history' = history
    /\ lastEvent' = "traverse"
    /\ UNCHANGED <<storage, isAuthenticated, loading, effectPending,
                   callLog, lastTokens>>
    /\ Rerender(loginPage, liveReq, staleReqs)
    /\ KeepRegister(register)
    /\ UNCHANGED authHook
    /\ KeepDetails(details)
    /\ UNCHANGED server
    /\ KeepDashboard(dash, requests)

\* Register.onSubmit up to the await
RegisterSubmit ==
    /\ Idle
    /\ rendered.view = "Register"
    /\ ~register.isSubmitting
    /\ InFlight + RegisterInFlight < MaxInFlight
    /\ lastEvent' = "registerSubmit"
    /\ SetSession(api(current))
    /\ UNCHANGED <<effectPending, history, hidx, callLog, lastTokens>>
    /\ Rerender(loginPage, liveReq, staleReqs)
    /\ KeepRegister([register EXCEPT !.isSubmitting = TRUE])
    /\ UNCHANGED authHook
    /\ KeepDetails(details)
    /\ UNCHANGED server
    /\ KeepDashboard(dash, requests)

\* Register.onSubmit after the await, request resolved
RegisterResolved(live, status) ==
    /\ Idle
    /\ IF live THEN register.isSubmitting ELSE register.staleReqs > 0
    /\ lastEvent' = "registerResolved"
    /\ UNCHANGED <<storage, isAuthenticated, loading, effectPending,
                   history, hidx, callLog, lastTokens>>
    /\ Rerender(loginPage, liveReq, staleReqs)
    /\ LET r == IF live
                THEN [register EXCEPT
                         !.isSubmitting = FALSE,
                         !.submitSuccess =
                             IF status = 201 THEN RegisterSuccessText ELSE @]
                ELSE [register EXCEPT !.staleReqs = @ - 1]
       IN  KeepRegister([r EXCEPT
                            !.navTimers = IF status = 201 THEN @ + 1 ELSE @])
    /\ UNCHANGED authHook
    /\ KeepDetails(details)
    /\ UNCHANGED server
    /\ KeepDashboard(dash, requests)

\* Register.onSubmit after the await, request rejected
RegisterRejected(live, detail) ==
    /\ Idle
    /\ IF live THEN register.isSubmitting ELSE register.staleReqs > 0
    /\ lastEvent' = "registerRejected"
    /\ UNCHANGED <<storage, isAuthenticated, loading, effectPending,
                   history, hidx, callLog, lastTokens>>
    /\ Rerender(loginPage, liveReq, staleReqs)
    /\ KeepRegister(IF live
                    THEN [register EXCEPT
                             !.isSubmitting = FALSE,
                             !.submitError = RegisterErrorText(detail),
                             !.clearTimers = @ + 1]
                    ELSE [register EXCEPT !.staleReqs = @ - 1])
    /\ UNCHANGED authHook
    /\ KeepDetails(details)
    /\ UNCHANGED server
    /\ KeepDashboard(dash, requests)

\* Register: setTimeout(() => navigate('/login'), 2000) fires
RegisterNavigate ==
    /\ Idle
    /\ register.navTimers > 0
    /\ SetHistory(navigate(history, hidx, "/login", FALSE))
    /\ lastEvent' = "registerNavigate"
    /\ UNCHANGED <<storage, isAuthenticated, loading, effectPending,
                   callLog, lastTokens>>
    /\ Rerender(loginPage, liveReq, staleReqs)
    /\ KeepRegister([register EXCEPT !.navTimers = @ - 1])
    /\ UNCHANGED authHook
    /\ KeepDetails(details)
    /\ UNCHANGED server
    /\ KeepDashboard(dash, requests)

\* Register: setTimeout(() => setSubmitError(null), 2000) fires
RegisterClearError ==
    /\ Idle
    /\ register.clearTimers > 0
    /\ lastEvent' = "registerClearError"
    /\ UNCHANGED <<storage, isAuthenticated, loading, effectPending,
                   history, hidx, callLog, lastTokens>>
    /\ Rerender(loginPage, liveReq, staleReqs)
    /\ KeepRegister([register EXCEPT !.clearTimers = @ - 1,
                                     !.submitError = Null])
    /\ UNCHANGED authHook
    /\ KeepDetails(details)
    /\ UNCHANGED server
    /\ KeepDashboard(dash, requests)

\* DashboardPage / HouseDetailsPage: a request of the page and its outcome
PageOperation(op) ==
    /\ Idle
    /\ <<rendered.view, op>> \in PageOperations
    /\ lastEvent' = op
    /\ SetSession(api(current))
    /\ UNCHANGED <<effectPending, history, hidx, callLog, lastTokens>>
    /\ Rerender(loginPage, liveReq, staleReqs)
    /\ KeepRegister(register)
    /\ UNCHANGED authHook
    /\ KeepDetails(details)
    /\ UNCHANGED server
    /\ KeepDashboard(dash, requests)

\* a component calls useAuth(), under the provider or outside any provider
UseAuth(inProvider) ==
    /\ authHook' = [inProvider |-> inProvider,
                    result |-> useAuth(useContext(inProvider, current))]
    /\ lastEvent' = "useAuth"
    /\ UNCHANGED <<storage, isAuthenticated, loading, effectPending, history,
                   hidx, rendered, loginPage, liveReq, staleReqs, callLog,
                   lastTokens, register>>
    /\ UNCHANGED details
    /\ UNCHANGED <<server, dash, requests>>

\* a handler, timer or answer of the dashboard: it leaves the session, the
\* history and the other pages alone; srv, d, rq are what it leaves of the
\* backend, the page and the requests
DashboardStep(event, srv, d, rq) ==
    /\ Idle
    /\ lastEvent' = event
    /\ SetSession(api(current))
    /\ UNCHANGED <<effectPending, history, hidx, callLog, lastTokens>>
    /\ Rerender(loginPage, liveReq, staleReqs)
    /\ KeepRegister(register)
    /\ UNCHANGED authHook
    /\ KeepDetails(details)
    /\ server' = srv
    /\ KeepDashboard(d, rq)

\* onClick={() => setIsCreating(true)}
OpenCreate ==
    /\ dash.mounted
    /\ ~dash.isCreating
    /\ DashboardStep("openCreate", server,
                     [dash EXCEPT !.isCreating = TRUE], requests)

\* onClick={() => setIsCreating(false)}
CancelCreate ==
    /\ dash.mounted
    /\ dash.isCreating
    /\ DashboardStep("cancelCreate", server,
                     [dash EXCEPT !.isCreating = FALSE], requests)

\* onChange of the inputs of the create form
TypeNewHouse(form) ==
    /\ dash.mounted
    /\ dash.isCreating
    /\ form # dash.newHouse
    /\ DashboardStep("typeNewHouse", server,
                     [dash EXCEPT !.newHouse = form], requests)

\* handleCreateHouse up to the await, or to its end when parse throws
HandleCreateHouse ==
    /\ dash.mounted
    /\ dash.isCreating
    /\ ~dash.loading
    /\ IF houseSchema(dash.newHouse)
       THEN /\ Len(requests) < MaxRequests
            /\ DashboardStep("handleCreateHouse", server,
                             [dash EXCEPT !.loading = TRUE],
                             Append(requests,
                                    Request("create", dash.newHouse, <<>>)))
       ELSE /\ dash.errorTimers < MaxTimers
            /\ DashboardStep("handleCreateHouse", server,
                             [ShowError(dash, ValidationFailed)
                                 EXCEPT !.loading = FALSE],
                             requests)

\* handleCreateHouse after the await, request i resolved
CreateResolved(i) ==
    /\ i \in 1..Len(requests)
    /\ requests[i].kind = "create"
    /\ FreeIds(server) # {}
    /\ requests[i].live => dash.successTimers < MaxTimers
    /\ DashboardStep("createResolved",
           Insert(server, [requests[i].house EXCEPT !.id = NewId(server)]),
           IF requests[i].live
           THEN [ShowSuccess(dash, "House created successfully!") EXCEPT
                    !.isCreating = FALSE,
                    !.newHouse = InitialNewHouse,
                    !.loading = FALSE]
           ELSE dash,
           IF requests[i].live
           THEN Append(Without(requests, i), FetchRequest)
           ELSE Without(requests, i))

\* handleCreateHouse after the await, request i rejected
CreateRejected(i) ==
    /\ i \in 1..Len(requests)
    /\ requests[i].kind = "create"
    /\ requests[i].live => dash.errorTimers < MaxTimers
    /\ DashboardStep("createRejected", server,
           IF requests[i].live
           THEN [ShowError(dash, "Error creating house. Please try again.")
                    EXCEPT !.loading = FALSE]
           ELSE dash,
           Without(requests, i))

\* fetchHouses after the await, request i resolved
FetchResolved(i) ==
    /\ i \in 1..Len(requests)
    /\ requests[i].kind = "fetch"
    /\ DashboardStep("fetchResolved", server,
                     [dash EXCEPT !.houses = server], Without(requests, i))

\* fetchHouses after the await, request i rejected
FetchRejected(i) ==
    /\ i \in 1..Len(requests)
    /\ requests[i].kind = "fetch"
    /\ DashboardStep("fetchRejected", server, dash, Without(requests, i))

\* handleDeleteHouse(id) up to the await, or to its return when the user
\* declines window.confirm
HandleDeleteHouse(id, confirmed) ==
    /\ RowShown(dash, id)
    /\ IF confirmed
       THEN /\ Len(requests) < MaxRequests
            /\ DashboardStep("handleDeleteHouse", server, dash,
                             Append(requests,
                                    Request("delete",
                                            HouseOf(dash.houses, id),
                                            dash.houses)))
       ELSE DashboardStep("deleteDeclined", server, dash, requests)

\* handleDeleteHouse after the await, request i resolved
DeleteResolved(i) ==
    /\ i \in 1..Len(requests)
    /\ requests[i].kind = "delete"
    /\ requests[i].house.id \in Ids(server)
    /\ requests[i].live => dash.successTimers < MaxTimers
    /\ DashboardStep("deleteResolved",
           FilterOut(server, requests[i].house.id),
           IF requests[i].live
           THEN [ShowSuccess(dash, "House deleted successfully!") EXCEPT
                    !.houses = FilterOut(requests[i].houses,
                                         requests[i].house.id)]
           ELSE dash,
           Without(requests, i))

\* handleDeleteHouse after the await, request i rejected
DeleteRejected(i) ==
    /\ i \in 1..Len(requests)
    /\ requests[i].kind = "delete"
    /\ requests[i].live => dash.errorTimers < MaxTimers
    /\ DashboardStep("deleteRejected", server,
           IF requests[i].live
           THEN ShowError(dash, "Error deleting house. Please try again.")
           ELSE dash,
           Without(requests, i))

\* onClick={() => setEditingHouse(house)}
StartEdit(id) ==
    /\ RowShown(dash, id)
    /\ DashboardStep("startEdit", server,
           [dash EXCEPT !.editingHouse = Some(HouseOf(dash.houses, id))],
           requests)

\* onChange of the inputs of the row being edited
TypeEdit(form) ==
    /\ EditRowShown(dash)
    /\ form.id = dash.editingHouse[1].id
    /\ form # dash.editingHouse[1]
    /\ DashboardStep("typeEdit", server,
                     [dash EXCEPT !.editingHouse = Some(form)], requests)

\* onClick={() => setEditingHouse(null)}
CancelEdit ==
    /\ EditRowShown(dash)
    /\ DashboardStep("cancelEdit", server,
                     [dash EXCEPT !.editingHouse = Null], requests)

\* handleUpdateHouse up to the await, or to its end when parse throws
HandleUpdateHouse ==
    /\ EditRowShown(dash)
    /\ IF houseSchema(dash.editingHouse[1])
       THEN /\ Len(requests) < MaxRequests
            /\ DashboardStep("handleUpdateHouse", server, dash,
                             Append(requests,
                                    Request("update", dash.editingHouse[1],
                                            dash.houses)))
       ELSE /\ dash.errorTimers < MaxTimers
            /\ DashboardStep("handleUpdateHouse", server,
                             ShowError(dash, ValidationFailed), requests)

\* handleUpdateHouse after the await, request i resolved
UpdateResolved(i) ==
    /\ i \in 1..Len(requests)
    /\ requests[i].kind = "update"
    /\ requests[i].house.id \in Ids(server)
    /\ requests[i].live => dash.successTimers < MaxTimers
    /\ DashboardStep("updateResolved",
           MapReplace(server, requests[i].house),
           IF requests[i].live
           THEN [ShowSuccess(dash, "House updated successfully!") EXCEPT
                    !.houses = MapReplace(requests[i].houses,
                                          requests[i].house),
                    !.editingHouse = Null]
           ELSE dash,
           Without(requests, i))

\* handleUpdateHouse after the await, request i rejected
UpdateRejected(i) ==
    /\ i \in 1..Len(requests)
    /\ requests[i].kind = "update"
    /\ requests[i].live => dash.errorTimers < MaxTimers
    /\ DashboardStep("updateRejected", server,
           IF requests[i].live
           THEN ShowError(dash, "Error updating house. Please try again.")
           ELSE dash,
           Without(requests, i))

\* a timer of setTimeout(() => setSuccessMessage(null), 2000) fires
SuccessTimer ==
    /\ dash.mounted
    /\ dash.successTimers > 0
    /\ DashboardStep("successTimer", server,
           [dash EXCEPT !.successMessage = Null, !.successTimers = @ - 1],
           requests)

\* a timer of setTimeout(() => setErrorMessage(null), 2000) fires
ErrorTimer ==
    /\ dash.mounted
    /\ dash.errorTimers > 0
    /\ DashboardStep("errorTimer", server,
           [dash EXCEPT !.errorMessage = Null, !.errorTimers = @ - 1],
           requests)

\* handleRedirect(house): navigate(`/house-details/${house.id}`)
HandleRedirect(id) ==
    /\ Idle
    /\ RowShown(dash, id)
    /\ \E p \in HouseDetailsPaths :
          /\ RouteId(p) = id
          /\ SetHistory(navigate(history, hidx, p, FALSE))
    /\ lastEvent' = "handleRedirect"
    /\ UNCHANGED <<storage, isAuthenticated, loading, effectPending,
                   callLog, lastTokens>>
    /\ Rerender(loginPage, liveReq, staleReqs)
    /\ KeepRegister(register)
    /\ UNCHANGED authHook
    /\ KeepDetails(details)
    /\ UNCHANGED server
    /\ KeepDashboard(dash, requests)

\* HouseDetailsPage.fetchHouseDetails after the await, request i resolved with
\* the house it asked for
DetailsResolved(i) ==
    /\ Idle
    /\ details.mounted
    /\ i \in 1..Len(details.fetches)
    /\ lastEvent' = "detailsResolved"
    /\ SetSession(api(current))
    /\ UNCHANGED <<effectPending, history, hidx, callLog, lastTokens>>
    /\ Rerender(loginPage, liveReq, staleReqs)
    /\ KeepRegister(register)
    /\ UNCHANGED authHook
    /\ KeepDetails([details EXCEPT !.house = Some(details.fetches[i]),
                                   !.loading = FALSE,
                                   !.fetches = Without(@, i)])
    /\ UNCHANGED server
    /\ KeepDashboard(dash, requests)

\* HouseDetailsPage.fetchHouseDetails after the await, request i rejected
DetailsRejected(i) ==
    /\ Idle
    /\ details.mounted
    /\ i \in 1..Len(details.fetches)
    /\ lastEvent' = "detailsRejected"
    /\ SetSession(api(current))
    /\ UNCHANGED <<effectPending, history, hidx, callLog, lastTokens>>
    /\ Rerender(loginPage, liveReq, staleReqs)
    /\ KeepRegister(register)
    /\ UNCHANGED authHook
    /\ KeepDetails([details EXCEPT
           !.error = Some("Failed to load house details. Please try again."),
           !.loading = FALSE,
           !.fetches = Without(@, i)])
    /\ UNCHANGED server
    /\ KeepDashboard(dash, requests)

\* page load of path p (reload when p is the current path): storage and the
\* session history survive, every component mounts afresh, requests are dropped
Load(p) ==
    /\ IF p = location THEN UNCHANGED <<history, hidx>>
       ELSE SetHistory(push(history, hidx, p))
    /\ storage' = storage
    /\ isAuthenticated' = FALSE
    /\ loading' = TRUE
    /\ effectPending' = TRUE
    /\ rendered' = App(history'[hidx'], TRUE, FALSE)
    /\ loginPage' = InitialLoginPage
    /\ liveReq' = FALSE
    /\ staleReqs' = 0
    /\ callLog' = <<>>
    /\ lastTokens' = Null
    /\ lastEvent' = "load"
    /\ register' = InitialRegister
    /\ UNCHANGED authHook
    /\ details' = UnmountedDetails
    /\ dash' = UnmountedDashboard
    /\ requests' = <<>>
    /\ UNCHANGED server

\* reload of the current page, seen by an observer who keeps the record of
\* the login and logout calls made on this storage: in-memory state returns to
\* its initial values, storage is kept, the mount effect is pending again
Reload ==
    /\ isAuthenticated' = FALSE
    /\ loading' = TRUE
    /\ effectPending' = TRUE
    /\ rendered' = App(location, TRUE, FALSE)
    /\ loginPage' = InitialLoginPage
    /\ liveReq' = FALSE
    /\ staleReqs' = 0
    /\ lastEvent' = "reload"
    /\ UNCHANGED <<storage, history, hidx, callLog, lastTokens>>
    /\ register' = InitialRegister
    /\ UNCHANGED authHook
    /\ details' = UnmountedDetails
    /\ dash' = UnmountedDashboard
    /\ requests' = <<>>
    /\ UNCHANGED server

\* any consumer of the context calls login / logout
CallLogin(tokens) ==
    /\ SetSession(login(current, tokens))
    /\ callLog' = Logged("login")
    /\ lastTokens' = Some(tokens)
    /\ lastEvent' = "login"
    /\ UNCHANGED <<effectPending, history, hidx>>
    /\ Rerender(loginPage, liveReq, staleReqs)
    /\ KeepRegister(register)
    /\ UNCHANGED authHook
    /\ KeepDetails(details)
    /\ UNCHANGED server
    /\ KeepDashboard(dash, requests)

CallLogout ==
    /\ SetSession(logout(current))
    /\ callLog' = Logged("logout")
    /\ lastEvent' = "logout"
    /\ UNCHANGED <<effectPending, history, hidx, lastTokens>>
    /\ Rerender(loginPage, liveReq, staleReqs)
    /\ KeepRegister(register)
    /\ UNCHANGED authHook
    /\ KeepDetails(details)
    /\ UNCHANGED server
    /\ KeepDashboard(dash, requests)

---------------------------------------------------------------------------
\* Specifications

\* the application: first render done, mount effect pending
Init ==
    /\ storage \in Storages
    /\ isAuthenticated = FALSE
    /\ loading = TRUE
    /\ effectPending = TRUE
    /\ \E p \in Paths :
          /\ history = <<p>>
          /\ rendered = App(p, TRUE, FALSE)
    /\ hidx = 1
    /\ loginPage = InitialLoginPage
    /\ liveReq = FALSE
    /\ staleReqs = 0
    /\ callLog = <<>>
    /\ lastTokens = Null
    /\ lastEvent = "none"
    /\ register = InitialRegister
    /\ authHook = NoHookCall
    /\ details = UnmountedDetails
    /\ server = <<>>
    /\ dash = UnmountedDashboard
    /\ requests = <<>>

Next ==
    \/ Initialize
    \/ Render
    \/ Redirect
    \/ SubmitLogin
    \/ \E live \in BOOLEAN, status \in ResolvedStatuses, tokens \in TokenPairs :
          LoginResolved(live, status, tokens)
    \/ \E live \in BOOLEAN, detail \in Details : LoginRejected(live, detail)
    \/ ClickLogout
    \/ \E p \in Paths : FollowLink(p)
    \/ \E d \in {0, 2} : Traverse(d)
    \/ \E p \in Paths : Load(p)

Spec == Init /\ [][Next]_vars

\* the provider's contract: login and logout called by any consumer, in any
\* order and any state
NextProvider ==
    \/ Initialize
    \/ Render
    \/ Redirect
    \/ \E tokens \in TokenPairs : CallLogin(tokens)
    \/ CallLogout

SpecProvider == Init /\ [][NextProvider]_vars

\* the provider with its mount effect invoked any number of times
NextRerun ==
    \/ NextProvider
    \/ RerunEffect

SpecRerun == Init /\ [][NextRerun]_vars

\* the application with the registration form and the requests of the
\* dashboard and house details pages, navigated by links, redirects and page
\* loads
NextPages ==
    \/ Initialize
    \/ Render
    \/ Redirect
    \/ SubmitLogin
    \/ \E live \in BOOLEAN, status \in ResolvedStatuses, tokens \in TokenPairs :
          LoginResolved(live, status, tokens)
    \/ \E live \in BOOLEAN, detail \in Details : LoginRejected(live, detail)
    \/ ClickLogout
    \/ \E p \in Paths : FollowLink(p)
    \/ \E p \in Paths : Load(p)
    \/ RegisterSubmit
    \/ \E live \in BOOLEAN, status \in ResolvedStatuses :
          RegisterResolved(live, status)
    \/ \E live \in BOOLEAN, detail \in Details : RegisterRejected(live, detail)
    \/ RegisterNavigate
    \/ RegisterClearError
    \/ \E op \in {o[2] : o \in PageOperations} : PageOperation(op)

SpecPages == Init /\ [][NextPages]_vars

\* the provider and the components that read it through useAuth
NextUseAuth ==
    \/ NextProvider
    \/ \E inProvider \in BOOLEAN : UseAuth(inProvider)

SpecUseAuth == Init /\ [][NextUseAuth]_vars

\* the dashboard of an authenticated session, just mounted, its fetchHouses
\* request in flight, the backend holding any list
InitDashboard ==
    /\ storage = [k \in Keys |-> IF k = "accessToken" THEN "a1" ELSE "r1"]
    /\ isAuthenticated = TRUE
    /\ loading = FALSE
    /\ effectPending = FALSE
    /\ history = <<"/dashboard">>
    /\ hidx = 1
    /\ rendered = Page("DashboardPage")
    /\ loginPage = InitialLoginPage
    /\ liveReq = FALSE
    /\ staleReqs = 0
    /\ callLog = <<>>
    /\ lastTokens = Null
    /\ lastEvent = "initialize"
    /\ register = InitialRegister
    /\ authHook = NoHookCall
    /\ details = UnmountedDetails
    /\ server \in ServerLists
    /\ dash = MountedDashboard
    /\ requests = <<FetchRequest>>

\* no timer of the dashboard is pending: the messages of the last operation
\* were cleared before the next click or answer
TimersFired == dash.successTimers = 0 /\ dash.errorTimers = 0

\* nothing of the dashboard is pending: the last operation was answered and
\* its message cleared
Quiet == TimersFired /\ requests = <<>>

\* the house list: deleting and editing houses, the answers in any order, each
\* click or answer coming after the timers of the one before fired
NextHouses ==
    \/ TimersFired /\ \E i \in 1..MaxRequests : FetchResolved(i)
    \/ TimersFired /\ \E i \in 1..MaxRequests : FetchRejected(i)
    \/ TimersFired /\ \E id \in HouseIds, confirmed \in BOOLEAN :
                          HandleDeleteHouse(id, confirmed)
    \/ TimersFired /\ \E i \in 1..MaxRequests : DeleteResolved(i)
    \/ TimersFired /\ \E i \in 1..MaxRequests : DeleteRejected(i)
    \/ TimersFired /\ \E id \in HouseIds : StartEdit(id)
    \/ TimersFired /\ \E id \in HouseIds :
                          \E form \in ValidValues(id) : TypeEdit(form)
    \/ TimersFired /\ CancelEdit
    \/ TimersFired /\ HandleUpdateHouse
    \/ TimersFired /\ \E i \in 1..MaxRequests : UpdateResolved(i)
    \/ TimersFired /\ \E i \in 1..MaxRequests : UpdateRejected(i)
    \/ SuccessTimer
    \/ ErrorTimer

SpecHouses == InitDashboard /\ [][NextHouses]_vars

\* the forms of the dashboard: the create form and the edit row with every
\* value of FormValues, Create and Save, their answers; the user clicks and
\* types only when the operation before was answered and its message cleared
NextForms ==
    \/ Quiet /\ OpenCreate
    \/ Quiet /\ CancelCreate
    \/ Quiet /\ \E form \in FormValues(0) : TypeNewHouse(form)
    \/ Quiet /\ HandleCreateHouse
    \/ \E i \in 1..MaxRequests : CreateResolved(i)
    \/ \E i \in 1..MaxRequests : CreateRejected(i)
    \/ \E i \in 1..MaxRequests : FetchResolved(i)
    \/ \E i \in 1..MaxRequests : FetchRejected(i)
    \/ Quiet /\ \E id \in HouseIds : StartEdit(id)
    \/ Quiet /\ \E id \in HouseIds :
                    \E form \in FormValues(id) : TypeEdit(form)
    \/ Quiet /\ CancelEdit
    \/ Quiet /\ HandleUpdateHouse
    \/ \E i \in 1..MaxRequests : UpdateResolved(i)
    \/ \E i \in 1..MaxRequests : UpdateRejected(i)
    \/ SuccessTimer
    \/ ErrorTimer

SpecForms == InitDashboard /\ [][NextForms]_vars

\* creating houses: the create form, Create, its answers and the refetch,
\* leaving for a house details page by Design Attachment and coming back by
\* Back to Dashboard
NextCreate ==
    \/ OpenCreate
    \/ CancelCreate
    \/ \E form \in ValidValues(0) : TypeNewHouse(form)
    \/ HandleCreateHouse
    \/ \E i \in 1..MaxRequests : CreateResolved(i)
    \/ \E i \in 1..MaxRequests : CreateRejected(i)
    \/ \E i \in 1..MaxRequests : FetchResolved(i)
    \/ \E i \in 1..MaxRequests : FetchRejected(i)
    \/ \E id \in HouseIds : HandleRedirect(id)
    \/ Len(requests) < MaxRequests /\ FollowLink("/dashboard")
    \/ SuccessTimer
    \/ ErrorTimer

SpecCreate == InitDashboard /\ [][NextCreate]_vars

\* the messages of the dashboard: operations that set one (Create on the
\* form as it opens, deletes and their answers) and the timers, at any pace
NextMessages ==
    \/ OpenCreate
    \/ HandleCreateHouse
    \/ \E i \in 1..MaxRequests : FetchResolved(i)
    \/ \E i \in 1..MaxRequests : FetchRejected(i)
    \/ \E id \in HouseIds, confirmed \in BOOLEAN :
          HandleDeleteHouse(id, confirmed)
    \/ \E i \in 1..MaxRequests : DeleteResolved(i)
    \/ \E i \in 1..MaxRequests : DeleteRejected(i)
    \/ SuccessTimer
    \/ ErrorTimer

SpecMessages == InitDashboard /\ [][NextMessages]_vars

\* the house details page: entered by its address or reached by back and
\* forward between house details entries, with the answers to its requests
NextDetails ==
    \/ Initialize
    \/ Render
    \/ Redirect
    \/ \E p \in HouseDetailsPaths : Load(p)
    \/ \E d \in {0, 2} : Len(details.fetches) < MaxFetches /\ Traverse(d)
    \/ \E i \in 1..MaxFetches : DetailsResolved(i)
    \/ \E i \in 1..MaxFetches : DetailsRejected(i)

SpecDetails == Init /\ [][NextDetails]_vars

\* the provider across page reloads
NextReload ==
    \/ NextProvider
    \/ Reload

SpecReload == Init /\ [][NextReload]_vars

\* the application and its pages with the mount effect scheduled: React runs
\* the effect of a mounted component after the render that mounted it
SpecFair == Init /\ [][NextPages]_vars /\ WF_vars(Initialize)

\* the guard as a function of its inputs: every (loading, isAuthenticated),
\* every storage and history, nothing rendered yet
InitGuard ==
    /\ storage \in Storages
    /\ isAuthenticated \in BOOLEAN
    /\ loading \in BOOLEAN
    /\ effectPending = loading
    /\ \E n \in 1..MaxHistory :
          /\ history \in [1..n -> Paths]
          /\ hidx \in 1..n
    /\ rendered = Unrendered
    /\ loginPage = InitialLoginPage
    /\ liveReq = FALSE
    /\ staleReqs = 0
    /\ callLog = <<>>
    /\ lastTokens = Null
    /\ lastEvent = "none"
    /\ register = InitialRegister
    /\ authHook = NoHookCall
    /\ details = UnmountedDetails
    /\ server = <<>>
    /\ dash = UnmountedDashboard
    /\ requests = <<>>

NextGuard ==
    \/ Render
    \/ Redirect

SpecGuard == InitGuard /\ [][NextGuard]_vars

TypeOK ==
    /\ storage \in Storages
    /\ isAuthenticated \in BOOLEAN
    /\ loading \in BOOLEAN
    /\ effectPending \in BOOLEAN
    /\ Len(history) \in 1..MaxHistory
    /\ \A i \in 1..Len(history) : history[i] \in Paths \cup HouseDetailsPaths
    /\ hidx \in 1..Len(history)
    /\ loginPage.isSubmitting \in BOOLEAN
    /\ liveReq \in BOOLEAN
    /\ staleReqs \in 0..MaxInFlight
    /\ InFlight <= MaxInFlight
    /\ Len(callLog) <= MaxCallLog
    /\ register.isSubmitting \in BOOLEAN
    /\ InFlight + RegisterInFlight <= MaxInFlight

---------------------------------------------------------------------------
\* Properties

LastCall == IF callLog = <<>> THEN "none" ELSE callLog[Len(callLog)]
HasEntry(k) == k \in DOMAIN storage
ProtectedViews == {"DashboardPage", "HouseDetailsPage"}

\* C1: a protected view (DashboardPage, HouseDetailsPage) is rendered only at
\* its own route and only while loading is false and isAuthenticated is true.
C1_ProtectedViewOnlyWhenAuthenticated ==
    rendered.view \in ProtectedViews =>
        /\ ~loading
        /\ isAuthenticated
        /\ location \in ProtectedPaths
        /\ rendered = RouteChildren(location)

C1_Witness ==
    /\ rendered.view = "HouseDetailsPage"
    /\ location = HouseDetailsPath
    /\ isAuthenticated
    /\ ~loading

\* C2: while loading is true the guard renders the placeholder, whatever
\* isAuthenticated and storage are, and no redirect changes the history.
C2_LoadingShowsPlaceholder ==
    /\ [](loading /\ location \in ProtectedPaths /\ rendered # Unrendered
             => rendered = Placeholder)
    /\ [][loading /\ location \in ProtectedPaths
             => UNCHANGED <<history, hidx>>]_vars

C2_Witness ==
    /\ loading
    /\ ~isAuthenticated
    /\ Truthy(getItem(storage, "accessToken"))
    /\ Truthy(getItem(storage, "refreshToken"))
    /\ location = "/dashboard"
    /\ rendered = Placeholder
    /\ lastEvent = "render"

\* C3: with loading false and isAuthenticated false the guard renders a
\* redirect to /login with replace set and not its children, and the redirect
\* overwrites the current history entry: no entry is added.
C3_UnauthenticatedRedirectReplaces ==
    /\ [](~loading /\ ~isAuthenticated /\ location \in ProtectedPaths
             /\ rendered # Unrendered
             => rendered = Navigate("/login", TRUE))
    /\ [][Redirect => /\ hidx' = hidx
                      /\ history' = [history EXCEPT ![hidx] = "/login"]]_vars

C3_Witness ==
    /\ lastEvent = "redirect"
    /\ ~loading
    /\ ~isAuthenticated
    /\ Len(history) = 2
    /\ hidx = 2
    /\ history[1] = "/register"
    /\ location = "/login"
    /\ rendered = Page("Login")

\* C4: with loading false and isAuthenticated true the guard renders exactly
\* the children its route supplies: no placeholder, no redirect.
C4_AuthenticatedRendersChildren ==
    (~loading /\ isAuthenticated /\ location \in ProtectedPaths
        /\ rendered # Unrendered)
    => /\ rendered = RouteChildren(location)
       /\ rendered # Placeholder
       /\ rendered.view # "Navigate"

C4_Witness ==
    /\ ~loading
    /\ isAuthenticated
    /\ location = "/dashboard"
    /\ rendered = Page("DashboardPage")

\* C5: a render of the guard, and the redirect it may issue, leave
\* isAuthenticated, loading and storage as they were and make no login,
\* logout or initialize call.
C5_GuardLeavesSessionUnchanged ==
    [][lastEvent' \in {"render", "redirect"}
          => UNCHANGED <<isAuthenticated, loading, storage, callLog,
                         lastTokens, effectPending>>]_vars

C5_Witness ==
    /\ lastEvent = "render"
    /\ location \in ProtectedPaths
    /\ isAuthenticated
    /\ HasEntry("accessToken")
    /\ rendered = RouteChildren(location)

\* C6: after login({access, refresh}), whatever the state it was called in,
\* storage holds access under accessToken and refresh under refreshToken and
\* isAuthenticated is true.
C6_LoginStoresTokensAndAuthenticates ==
    LastCall = "login" =>
        /\ lastTokens # Null
        /\ getItem(storage, "accessToken") = Some(lastTokens[1].access)
        /\ getItem(storage, "refreshToken") = Some(lastTokens[1].refresh)
        /\ isAuthenticated

C6_Witness ==
    /\ callLog = <<"login", "login">>
    /\ lastEvent = "login"
    /\ lastTokens = Some([access |-> "a1", refresh |-> "r1"])
    /\ storage = [k \in Keys |-> IF k = "accessToken" THEN "a1" ELSE "r1"]
    /\ isAuthenticated

\* C7: after logout, whatever the state it was called in, storage holds
\* neither accessToken nor refreshToken and isAuthenticated is false.
C7_LogoutClearsBothTokens ==
    LastCall = "logout" =>
        /\ ~HasEntry("accessToken")
        /\ ~HasEntry("refreshToken")
        /\ ~isAuthenticated

C7_Witness ==
    /\ callLog = <<"login", "logout">>
    /\ lastEvent = "logout"
    /\ DOMAIN storage = {}
    /\ ~isAuthenticated

\* C8: logout is idempotent: a logout directly after a logout changes neither
\* isAuthenticated nor storage, and a logout while unauthenticated ends in the
\* state one logout produces (flag false, no token entries).
C8_LogoutIdempotent ==
    /\ [][(LastCall = "logout" /\ CallLogout)
             => UNCHANGED <<isAuthenticated, storage>>]_vars
    /\ [][(~isAuthenticated /\ CallLogout)
             => /\ isAuthenticated' = isAuthenticated
                /\ DOMAIN storage' = {}]_vars

C8_Witness ==
    /\ callLog = <<"logout", "logout">>
    /\ lastEvent = "logout"
    /\ ~loading
    /\ ~isAuthenticated
    /\ DOMAIN storage = {}

\* C9: after any sequence of login and logout calls, isAuthenticated is true
\* if the last call was login and false if it was logout.
C9_LastCallWins ==
    callLog # <<>> => (isAuthenticated <=> LastCall = "login")

C9_Witness ==
    /\ ~loading
    /\ callLog = <<"logout", "login">>
    /\ isAuthenticated

\* C10: once loading is false, isAuthenticated is true exactly when storage
\* has an accessToken entry.
C10_FlagMatchesStorage ==
    ~loading => (isAuthenticated <=> HasEntry("accessToken"))

\* C11: when the mount effect has run, loading is false and isAuthenticated
\* is true exactly when storage has an accessToken entry, whatever its value
\* and whether or not a refreshToken entry exists.
C11_RecoveryFollowsEntry ==
    lastEvent = "initialize" =>
        /\ ~loading
        /\ isAuthenticated <=> HasEntry("accessToken")

\* C12: the mount effect is idempotent: run again directly after a run, it
\* changes none of loading, isAuthenticated and storage.
C12_InitializeIdempotent ==
    [][(lastEvent \in {"initialize", "reinitialize"} /\ RerunEffect)
          => UNCHANGED <<loading, isAuthenticated, storage>>]_vars

C12_Witness ==
    /\ lastEvent = "reinitialize"
    /\ callLog = <<>>
    /\ ~loading
    /\ isAuthenticated
    /\ getItem(storage, "accessToken") = Some("a1")

C14_LoadingResolvesOnce ==
    /\ [](effectPending => (loading /\ ~isAuthenticated))
    /\ [](loading => effectPending)
    /\ [][(loading /\ ~loading') => lastEvent' = "initialize"]_vars
    /\ [][(~loading /\ loading') => lastEvent' = "load"]_vars

C14_Witness ==
    /\ ~loading
    /\ callLog = <<"login", "logout">>
    /\ lastEvent = "logout"
    /\ ~isAuthenticated

\* C15: when the mount effect is scheduled fairly, loading becomes false from
\* every initial storage content, and a protected route does not show its
\* loading placeholder forever.
C15_LoadingEventuallyFalse ==
    /\ loading ~> ~loading
    /\ (rendered = Placeholder) ~> (rendered # Placeholder)

C15_Witness ==
    /\ lastEvent = "initialize"
    /\ ~loading
    /\ DOMAIN storage = {}
    /\ location = "/dashboard"
    /\ rendered = Navigate("/login", TRUE)

\* C16: isAuthenticated is true exactly when a login call, or a mount effect
\* that found an accessToken entry, has occurred and no logout since.
C16_AuthenticatedIffSessionOpened ==
    isAuthenticated <=>
        \/ LastCall = "login"
        \/ (callLog = <<>> /\ ~effectPending /\ HasEntry("accessToken"))

\* C17: whenever isAuthenticated is true, storage holds both an accessToken
\* and a refreshToken entry, for every initial storage content.
C17_AuthenticatedHasBothTokens ==
    isAuthenticated => (HasEntry("accessToken") /\ HasEntry("refreshToken"))

\* C18: the session survives a reload: when the last call on this storage was
\* login, whatever the token pair, isAuthenticated is true once loading is
\* false after a reload; when it was logout, isAuthenticated is false.
C18_SessionSurvivesReload ==
    /\ (~loading /\ LastCall = "login") => isAuthenticated
    /\ (~loading /\ LastCall = "logout") => ~isAuthenticated

\* C19: once the mount effect has run, isAuthenticated and the token entries
\* of storage change only in the login form's handler of a response with
\* status 200 and in the logout button of the navigation menu; a rejected
\* login request, a login response with another status, the registration
\* form and its timers, and the requests of the dashboard and house details
\* pages leave them as they were.
C19_SessionChangedOnlyByLoginFormAndLogoutButton ==
    /\ [][(/\ ~effectPending
           /\ ~effectPending'
           /\ <<isAuthenticated, storage>>' # <<isAuthenticated, storage>>)
          => \/ ClickLogout
             \/ \E live \in BOOLEAN, tokens \in TokenPairs :
                   LoginResolved(live, 200, tokens)]_vars
    /\ [][(\E live \in BOOLEAN, tokens \in TokenPairs,
              status \in ResolvedStatuses \ {200} :
                LoginResolved(live, status, tokens))
          => UNCHANGED <<isAuthenticated, storage>>]_vars
    /\ [][lastEvent' \in ({"submit", "rejected", "registerSubmit",
                           "registerResolved", "registerRejected",
                           "registerNavigate", "registerClearError"}
                             \cup {o[2] : o \in PageOperations})
          => UNCHANGED <<isAuthenticated, storage>>]_vars

C19_Witness ==
    /\ lastEvent = "registerNavigate"
    /\ location = "/login"
    /\ isAuthenticated
    /\ getItem(storage, "accessToken") = Some("a1")
    /\ getItem(storage, "refreshToken") = Some("r1")
    /\ register.navTimers = 0

\* C20: useAuth called where no AuthProvider supplies a context throws
\* 'useAuth must be used within an AuthProvider' and returns no value; called
\* under an AuthProvider it returns the provider's value.
C20_UseAuthThrowsOutsideProvider ==
    lastEvent = "useAuth" =>
        /\ ~authHook.inProvider =>
              authHook.result =
                  Thrown("useAuth must be used within an AuthProvider")
        /\ authHook.inProvider =>
              authHook.result = Returned(Some(ProviderValue(current)))

C20_Witness ==
    /\ lastEvent = "useAuth"
    /\ ~authHook.inProvider
    /\ authHook.result.threw
    /\ authHook.result.value = Null
    /\ isAuthenticated
    /\ callLog = <<"login">>

\* C21: once no request of the dashboard is outstanding after the answer to
\* a delete or an update, the local house list equals the list of the server.
C21_ListEqualsServerWhenQuiet ==
    (/\ dash.mounted
     /\ requests = <<>>
     /\ lastEvent \in {"deleteResolved", "updateResolved"})
        => dash.houses = server

\* C22: a create or update request is sent only if the form has a non-empty
\* name and width, length, height and floors of at least 1; when the form
\* fails that, no request is sent, the house list is unchanged and the error
\* message is 'Validation failed: Please check your input fields.'.
C22_RequestOnlyForValidForm ==
    [][LET Passes(h) ==
               /\ h.name # ""
               /\ h.width >= 1
               /\ h.length >= 1
               /\ h.height >= 1
               /\ h.floors >= 1
           Outcome(kind, form) ==
               IF Passes(form)
               THEN /\ Len(requests') = Len(requests) + 1
                    /\ requests'[Len(requests')].kind = kind
                    /\ requests'[Len(requests')].house = form
               ELSE /\ requests' = requests
                    /\ dash'.houses = dash.houses
                    /\ server' = server
                    /\ dash'.errorMessage = Some(ValidationFailed)
       IN  /\ HandleCreateHouse => Outcome("create", dash.newHouse)
           /\ HandleUpdateHouse
                 => Outcome("update", dash.editingHouse[1])]_vars

C22_Witness ==
    /\ lastEvent = "handleCreateHouse"
    /\ dash.newHouse = House(0, "a", 1, 1, 0, 1)
    /\ dash.errorMessage = Some(ValidationFailed)
    /\ requests = <<>>
    /\ dash.houses = server
    /\ Len(server) = 1

\* C23: a successful delete of id i leaves the list as it was at the moment
\* of the answer, less the houses of id i.
C23_DeleteRemovesFromCurrentList ==
    [][\A i \in 1..MaxRequests :
          (DeleteResolved(i) /\ requests[i].live)
              => dash'.houses = FilterOut(dash.houses, requests[i].house.id)]_vars

\* C24: a successful update replaces the entry of the edited id in the list
\* as it was at the moment of the answer, leaves the other entries as they
\* were, and leaves edit mode.
C24_UpdateReplacesOnlyEditedEntry ==
    [][\A i \in 1..MaxRequests :
          (UpdateResolved(i) /\ requests[i].live)
              => /\ dash'.houses = MapReplace(dash.houses, requests[i].house)
                 /\ dash'.editingHouse = Null]_vars

\* C27: at most one create-house request is in flight at any time.
C27_OneCreateInFlight ==
    Cardinality({i \in 1..Len(requests) : requests[i].kind = "create"}) <= 1

\* C28: editingHouse is null or carries the id of a house of the local list.
C28_EditingHouseIsListed ==
    (dash.mounted /\ dash.editingHouse # Null)
        => dash.editingHouse[1].id \in Ids(dash.houses)

\* C30: a message of the dashboard is cleared only by the timer started by
\* the operation that set it: a timer that clears a message is the only one
\* pending, the timers of earlier operations having fired before.
C30_MessageClearedByOwnTimer ==
    [][/\ (SuccessTimer /\ dash.successMessage # Null)
             => dash.successTimers = 1
       /\ (ErrorTimer /\ dash.errorMessage # Null)
             => dash.errorTimers = 1]_vars

\* C25: the handler of a login response with status 200 applies login(tokens)
\* together with the navigation to /dashboard: the guard at /dashboard then
\* renders the dashboard, not a redirect back to /login.
C25_LoginAppliedBeforeDashboard ==
    [][(\E live \in BOOLEAN, tokens \in TokenPairs :
            LoginResolved(live, 200, tokens))
          => /\ isAuthenticated'
             /\ location' = "/dashboard"
             /\ rendered' = Page("DashboardPage")
             /\ rendered'.view # "Navigate"]_vars

C25_Witness ==
    /\ lastEvent = "resolved"
    /\ callLog = <<"login">>
    /\ history = <<"/login", "/dashboard">>
    /\ hidx = 2
    /\ rendered = Page("DashboardPage")
    /\ isAuthenticated

\* C26: every answered submission of the mounted login form ends with
\* isSubmitting false and exactly one outcome: the session is authenticated
\* and the location is /dashboard, or an error message is set; whatever the
\* status of the response.
C26_AnsweredSubmissionHasOneOutcome ==
    [][(\/ \E status \in ResolvedStatuses, tokens \in TokenPairs :
              LoginResolved(TRUE, status, tokens)
        \/ \E detail \in Details : LoginRejected(TRUE, detail))
          => /\ ~loginPage'.isSubmitting
             /\ (isAuthenticated' /\ location' = "/dashboard")
                    # (loginPage'.submitError # Null)]_vars

\* C29: on the house details page, whenever loading is false exactly one of
\* house and error is set, and the house held is the one of the current
\* route parameter, also when the parameter changes and fetches overlap.
C29_DetailsShowOneOutcomeOfCurrentId ==
    (details.mounted /\ ~details.loading) =>
        /\ (details.house # Null) # (details.error # Null)
        /\ details.house # Null => details.house = Some(details.id)

====
